---- MODULE Spec2Model ----
(***************************************************************************)
(* Model of dl-vsix: the dependency-following download engine              *)
(* (dl_vsix/dl.py, dl_vsix/extension_query.py) and the size-bounded VSIX   *)
(* package cache (dl_vsix/extension_cache.py).                             *)
(*                                                                         *)
(* The specifications share the variables:                                 *)
(*   Spec       one call of download_extensions                            *)
(*   FairSpec   the same, the running call always taking its next step     *)
(*   CacheSpec  one ExtensionCache instance and the operations that can    *)
(*              change it: insert, remove, purge, prune                    *)
(*   ExportSpec the same instance with copy_to as well                     *)
(*   IdSpec     Extension.from_id and Extension.__str__ on one string      *)
(*   NameSpec   the file name dl.py writes, read by from_vsix_path         *)
(*   ExtractSpec  one call of extract_dependencies                         *)
(*   PathSpec   CacheSpec with insert called on bad source paths as well   *)
(*   PeerSpec   two ExtensionCache instances on one cache directory        *)
(***************************************************************************)
EXTENDS Integers, Sequences, FiniteSets, TLC

VARIABLES
    \* ---- download_extensions (dl.py) ----
    extensions,           \* the work list `extensions` (popped from its end)
    seen_extensions,      \* the set `seen_extensions`
    out_dir,              \* files in out_dir: [extension, version, complete]
    out_dir_exists,       \* out_dir.exists()
    follow_dependencies,  \* the argument follow_dependencies
    pc,                   \* position of the call: start / loop / done / raised
                          \* (idle: no call, under CacheSpec)
    version_cache,        \* functools.lru_cache of query_latest_version
    attempts,             \* history: one record per popped identifier
    printed,              \* history: the messages print()ed by the loop
    depends,              \* environment: extensionDependencies declared by each artifact
    seed,                 \* environment: the list the caller passed in
    \* ---- ExtensionCache (extension_cache.py) ----
    cache_dir,            \* files in _cache_dir: [extension, version, byte_size, mtime]
    package_cache,        \* the dict _package_cache, in insertion order
    maxsize_mb,           \* _maxsize_mb
    last_op,              \* history: the last cache operation, its arguments, its outcome
                          \* and the entries its pruning chose to evict
    init_ambiguous,       \* history: the directory scanned by __init__ held two files
                          \* of one identifier
    \* ---- Extension (dl.py) ----
    id_text,              \* the string handed to Extension.from_id, as its characters
    id_ext,               \* x = Extension.from_id(id_text): <<publisher, extension>>
    id_str,               \* str(x)
    id_again,             \* Extension.from_id(str(x))
    id_pc,                \* input / parsed / rendered / reparsed / raised / reraised
                          \* (idle: under the other specifications)
    \* ---- the file name written by dl.py and read by CachedExtension ----
    fn_ext,               \* the Extension downloaded: <<publisher, extension>>
    fn_version,           \* the version string query_latest_version returned
    fn_name,              \* the name of out_filepath, as its characters
    fn_parsed,            \* CachedExtension.from_vsix_path(out_filepath):
                          \* <<extension, version>>
    fn_pc,                \* input / written / parsed / raised (idle elsewhere)
    \* ---- extract_dependencies (dl.py) ----
    ex_vsix,              \* the artifact: what its archive holds at `target`
    ex_tmpdirs,           \* the temporary directories that exist, with their files
    ex_result,            \* what the call returned or raised
    ex_pc,                \* start / entered / extracted / loaded / returned / raised
                          \* (idle elsewhere)
    \* ---- a second ExtensionCache on the same directory ----
    cache_b,              \* the dict _package_cache of the second instance
    b_acted               \* history: the second instance has been constructed

dlvars == <<extensions, seen_extensions, out_dir, out_dir_exists, follow_dependencies,
            pc, version_cache, attempts, printed, depends, seed>>
cachevars == <<cache_dir, package_cache, maxsize_mb, last_op, init_ambiguous>>
idvars == <<id_text, id_ext, id_str, id_again, id_pc>>
fnvars == <<fn_ext, fn_version, fn_name, fn_parsed, fn_pc>>
exvars == <<ex_vsix, ex_tmpdirs, ex_result, ex_pc>>
peervars == <<cache_b, b_acted>>
vars == <<extensions, seen_extensions, out_dir, out_dir_exists, follow_dependencies,
          pc, version_cache, attempts, printed, depends, seed,
          cache_dir, package_cache, maxsize_mb, last_op, init_ambiguous,
          id_text, id_ext, id_str, id_again, id_pc,
          fn_ext, fn_version, fn_name, fn_parsed, fn_pc,
          ex_vsix, ex_tmpdirs, ex_result, ex_pc,
          cache_b, b_acted>>

(***************************************************************************)
(* Bounds                                                                  *)
(***************************************************************************)
\* longest seed list passed to download_extensions
MaxSeed == 2
\* most dependencies one artifact declares
MaxDeps == 2
\* cap on the number of loop iterations explored in one call
MaxAttempts == 9

\* most .vsix files in the cache directory when the cache is constructed
MaxInitFiles == 2
\* largest cache_maxsize_mb an instance is constructed with
MaxSizeMb == 1

\* longest string handed to Extension.from_id
MaxIdLen == 4

\* longest publisher, extension name and version string in a file name
MaxPartLen == 2

\* most strings in the extensionDependencies list of one package.json
MaxDeclared == 2

\* the identifiers of the model (Extension values, rendered publisher.name)
Exts == {"a.x", "b.y", "c.z"}
\* the version strings of the model's file names
Versions == {"1.0", "2.0"}
\* the latest release the registry answers with during one call
LatestVersions == {"2.0"}
\* HTTP status codes a fetch can answer with
StatusCodes == {200, 404}
\* httpx.codes.OK
HTTP_OK == 200
NoVersion == "none"
\* 1 << 20, the bytes of one megabyte in bytes2megabytes
MB == 1048576
\* st_size of the model's files
Sizes == {300000, 700000}
\* st_mtime of the model's files
Times == {1, 2}

(***************************************************************************)
(* Sequence helpers                                                        *)
(***************************************************************************)
Range(s) == {s[i] : i \in DOMAIN s}

\* list.pop(): the last element, and the list without it
Last(s) == s[Len(s)]
Front(s) == SubSeq(s, 1, Len(s) - 1)

\* the orders in which iterating a Python set can yield its elements
Orderings(S) ==
    {s \in [1..Cardinality(S) -> S] : \A i, j \in 1..Cardinality(S) : i # j => s[i] # s[j]}

\* number of positions of s holding x
Count(s, x) == Cardinality({i \in DOMAIN s : s[i] = x})

\* the record kept of a cache operation: its name, outcome and arguments
LastOp(op, outcome, ext, version, force, evicted) ==
    [op |-> op, outcome |-> outcome, extension |-> ext, version |-> version, force |-> force,
     evicted |-> evicted]

(***************************************************************************)
(* download_extensions                                                     *)
(***************************************************************************)
\* file name f"{ext}_{latest_ver}.vsix" in out_dir
OutName(ext, ver) == [extension |-> ext, version |-> ver]

\* open(out_filepath, "wb") then write: replaces any file of the same name
WriteOut(dir, ext, ver, complete) ==
    {f \in dir : OutName(f.extension, f.version) # OutName(ext, ver)}
        \cup {[extension |-> ext, version |-> ver, complete |-> complete]}

\* faulty variants of NotSeen: no deduplication; the wrong set operator
NotSeenNoDedup(dependencies, seen) == dependencies
NotSeenIntersect(dependencies, seen) == dependencies \cap seen

\* not_seen = dependencies - seen_extensions
NotSeen(dependencies, seen) == dependencies \ seen

\* extract_dependencies(out_filepath) for the artifact of ext
ExtractDependencies(ext) == depends[ext]

\* extensions.extend(not_seen), only when follow_dependencies
Extend(rest, ext, seen) ==
    IF follow_dependencies
      THEN {rest \o o : o \in Orderings(NotSeen(ExtractDependencies(ext), seen))}
      ELSE {rest}

Attempt(ext, outcome) == [extension |-> ext, outcome |-> outcome]

\* faulty variant of CheckOutDir: the loop is entered without the check
CheckOutDirSkipsCheck ==
    /\ pc = "start"
    /\ pc' = "loop"
    /\ UNCHANGED <<extensions, seen_extensions, out_dir, out_dir_exists, follow_dependencies,
                   version_cache, attempts, printed, depends, seed>>

\* lines 84-85: the out_dir check
CheckOutDir ==
    /\ pc = "start"
    /\ pc' = IF out_dir_exists THEN "loop" ELSE "raised"
    /\ UNCHANGED <<extensions, seen_extensions, out_dir, out_dir_exists, follow_dependencies,
                   version_cache, attempts, printed, depends, seed>>

\* query_latest_version(str(ext)) raises: r.raise_for_status() or a lookup error
\* in the returned JSON; nothing in download_extensions catches it
ResolveRaises ==
    /\ pc = "loop" /\ extensions # <<>> /\ Len(attempts) < MaxAttempts
    /\ LET ext == Last(extensions) IN
        /\ version_cache[ext] = NoVersion
        /\ extensions' = Front(extensions)
        /\ attempts' = Append(attempts, Attempt(ext, "resolve_error"))
        /\ pc' = "raised"
    /\ UNCHANGED <<seen_extensions, out_dir, out_dir_exists, follow_dependencies,
                   version_cache, printed, depends, seed>>

\* the version query_latest_version returns: the lru_cache'd one, or a fresh answer
Resolved(ext) ==
    IF version_cache[ext] # NoVersion THEN {version_cache[ext]} ELSE LatestVersions

\* client.stream(...) raises before a status is known (connection failure)
ConnectRaises ==
    /\ pc = "loop" /\ extensions # <<>> /\ Len(attempts) < MaxAttempts
    /\ LET ext == Last(extensions) IN
        \E ver \in Resolved(ext) :
            /\ version_cache' = [version_cache EXCEPT ![ext] = ver]
            /\ extensions' = Front(extensions)
            /\ attempts' = Append(attempts, Attempt(ext, "connect_error"))
            /\ pc' = "raised"
    /\ UNCHANGED <<seen_extensions, out_dir, out_dir_exists, follow_dependencies,
                   printed, depends, seed>>

\* faulty variant of FetchNotOK: the identifier is marked seen before the status check
FetchNotOKMarksSeen ==
    /\ pc = "loop" /\ extensions # <<>> /\ Len(attempts) < MaxAttempts
    /\ LET ext == Last(extensions) IN
        \E ver \in Resolved(ext), code \in StatusCodes \ {HTTP_OK} :
            /\ version_cache' = [version_cache EXCEPT ![ext] = ver]
            /\ extensions' = Front(extensions)
            /\ seen_extensions' = seen_extensions \cup {ext}
            /\ attempts' = Append(attempts, Attempt(ext, "not_ok"))
            /\ printed' = Append(printed, [msg |-> "could_not_download", extension |-> ext])
    /\ UNCHANGED <<out_dir, out_dir_exists, follow_dependencies, pc, depends, seed>>

\* lines 106-108: status other than OK
FetchNotOK ==
    /\ pc = "loop" /\ extensions # <<>> /\ Len(attempts) < MaxAttempts
    /\ LET ext == Last(extensions) IN
        \E ver \in Resolved(ext), code \in StatusCodes \ {HTTP_OK} :
            /\ version_cache' = [version_cache EXCEPT ![ext] = ver]
            /\ extensions' = Front(extensions)
            /\ attempts' = Append(attempts, Attempt(ext, "not_ok"))
            /\ printed' = Append(printed, [msg |-> "could_not_download", extension |-> ext])
    /\ UNCHANGED <<seen_extensions, out_dir, out_dir_exists, follow_dependencies,
                   pc, depends, seed>>

\* faulty variant of StreamRaises: seen_extensions.add(ext) ahead of the write loop
StreamRaisesMarksSeen ==
    /\ pc = "loop" /\ extensions # <<>> /\ Len(attempts) < MaxAttempts
    /\ LET ext == Last(extensions) IN
        \E ver \in Resolved(ext) :
            /\ version_cache' = [version_cache EXCEPT ![ext] = ver]
            /\ extensions' = Front(extensions)
            /\ out_dir' = WriteOut(out_dir, ext, ver, FALSE)
            /\ seen_extensions' = seen_extensions \cup {ext}
            /\ attempts' = Append(attempts, Attempt(ext, "stream_error"))
            /\ pc' = "raised"
    /\ UNCHANGED <<out_dir_exists, follow_dependencies, printed, depends, seed>>

\* lines 98-101: status OK, the file is opened, the stream raises midway
StreamRaises ==
    /\ pc = "loop" /\ extensions # <<>> /\ Len(attempts) < MaxAttempts
    /\ LET ext == Last(extensions) IN
        \E ver \in Resolved(ext) :
            /\ version_cache' = [version_cache EXCEPT ![ext] = ver]
            /\ extensions' = Front(extensions)
            /\ out_dir' = WriteOut(out_dir, ext, ver, FALSE)
            /\ attempts' = Append(attempts, Attempt(ext, "stream_error"))
            /\ pc' = "raised"
    /\ UNCHANGED <<seen_extensions, out_dir_exists, follow_dependencies,
                   printed, depends, seed>>

\* lines 98-104 and 110-115: status OK, all chunks written
FetchOK ==
    /\ pc = "loop" /\ extensions # <<>> /\ Len(attempts) < MaxAttempts
    /\ LET ext == Last(extensions) IN
        \E ver \in Resolved(ext) :
            /\ version_cache' = [version_cache EXCEPT ![ext] = ver]
            /\ out_dir' = WriteOut(out_dir, ext, ver, TRUE)
            /\ seen_extensions' = seen_extensions \cup {ext}
            /\ attempts' = Append(attempts, Attempt(ext, "ok"))
            /\ printed' = Append(printed, [msg |-> "downloaded", extension |-> ext])
            /\ extensions' \in Extend(Front(extensions), ext, seen_extensions \cup {ext})
    /\ UNCHANGED <<out_dir_exists, follow_dependencies, pc, depends, seed>>

\* line 91: `while extensions` is false
LoopExit ==
    /\ pc = "loop" /\ extensions = <<>>
    /\ pc' = "done"
    /\ UNCHANGED <<extensions, seen_extensions, out_dir, out_dir_exists, follow_dependencies,
                   version_cache, attempts, printed, depends, seed>>

Iterate == ResolveRaises \/ ConnectRaises \/ FetchNotOK \/ StreamRaises \/ FetchOK

Seeds == {s \in UNION {[1..n -> Exts] : n \in 1..MaxSeed} :
            \A i, j \in DOMAIN s : i # j => s[i] # s[j]}

Graphs == [Exts -> {S \in SUBSET Exts : Cardinality(S) <= MaxDeps}]

CacheIdle ==
    /\ cache_dir = {}
    /\ package_cache = <<>>
    /\ maxsize_mb = 0
    /\ last_op = LastOp("none", "none", "none", NoVersion, FALSE, <<>>)
    /\ init_ambiguous = FALSE

\* no Extension.from_id call is modelled
IdIdle ==
    /\ id_text = <<>>
    /\ id_ext = <<>>
    /\ id_str = <<>>
    /\ id_again = <<>>
    /\ id_pc = "idle"

\* no file name is modelled
FnIdle ==
    /\ fn_ext = <<>>
    /\ fn_version = <<>>
    /\ fn_name = <<>>
    /\ fn_parsed = <<>>
    /\ fn_pc = "idle"

\* no extract_dependencies call is modelled in detail
ExIdle ==
    /\ ex_vsix = <<>>
    /\ ex_tmpdirs = {}
    /\ ex_result = <<>>
    /\ ex_pc = "idle"

\* no second instance is modelled
PeerIdle ==
    /\ cache_b = <<>>
    /\ b_acted = FALSE

Init ==
    /\ seed \in Seeds
    /\ extensions = seed
    /\ depends \in Graphs
    /\ seen_extensions = {}
    /\ out_dir = {}
    /\ out_dir_exists \in BOOLEAN
    /\ follow_dependencies \in BOOLEAN
    /\ pc = "start"
    /\ version_cache = [e \in Exts |-> NoVersion]
    /\ attempts = <<>>
    /\ printed = <<>>
    /\ CacheIdle
    /\ IdIdle
    /\ FnIdle
    /\ ExIdle
    /\ PeerIdle

Next ==
    \/ (CheckOutDir /\ UNCHANGED <<cachevars, idvars, fnvars, exvars, peervars>>)
    \/ (ResolveRaises /\ UNCHANGED <<cachevars, idvars, fnvars, exvars, peervars>>)
    \/ (ConnectRaises /\ UNCHANGED <<cachevars, idvars, fnvars, exvars, peervars>>)
    \/ (FetchNotOK /\ UNCHANGED <<cachevars, idvars, fnvars, exvars, peervars>>)
    \/ (StreamRaises /\ UNCHANGED <<cachevars, idvars, fnvars, exvars, peervars>>)
    \/ (FetchOK /\ UNCHANGED <<cachevars, idvars, fnvars, exvars, peervars>>)
    \/ (LoopExit /\ UNCHANGED <<cachevars, idvars, fnvars, exvars, peervars>>)

Spec == Init /\ [][Next]_vars

\* the interpreter keeps executing the call until it returns or raises
FairSpec == Spec /\ WF_vars(Next)

(***************************************************************************)
(* ExtensionCache                                                          *)
(***************************************************************************)
\* a file name {extension}_{version}.vsix
FileName(f) == [extension |-> f.extension, version |-> f.version]

\* the identifier that has two releases; the others have the first one only
Updated == "a.x"

\* every file a directory can hold
AllFiles ==
    {f \in [extension : Exts, version : Versions, byte_size : Sizes, mtime : Times] :
        f.version = "1.0" \/ f.extension = Updated}

\* distinct files of one directory have distinct names
IsDirectory(D) == \A f, g \in D : FileName(f) = FileName(g) => f = g

\* path.exists() for a name in the cache directory
ExistsIn(dir, name) == \E f \in dir : FileName(f) = name

\* CachedExtension.from_vsix_path for an existing, well-named .vsix file
FromVsixPath(f) ==
    [extension |-> f.extension, version |-> f.version, created_at |-> f.mtime,
     cache_path |-> FileName(f), byte_size |-> f.byte_size]

\* `extension in self._package_cache`
HasKey(d, ext) == \E i \in DOMAIN d : d[i].extension = ext
\* self._package_cache[extension]
Get(d, ext) == d[CHOOSE i \in DOMAIN d : d[i].extension = ext]
\* cached_version(extension): the entry's version, or None
CachedVersion(d, ext) == IF HasKey(d, ext) THEN Get(d, ext).version ELSE NoVersion
\* self._package_cache[e.extension] = e: a present key keeps its position
DictSet(d, e) ==
    IF HasKey(d, e.extension)
      THEN [i \in DOMAIN d |-> IF d[i].extension = e.extension THEN e ELSE d[i]]
      ELSE Append(d, e)
\* self._package_cache.pop(extension, None)
DictPop(d, ext) == SelectSeq(d, LAMBDA e : e.extension # ext)

\* _init_cache: the loop over the files glob yields, in the order it yields them
RECURSIVE InitCache(_)
InitCache(scan) ==
    IF scan = <<>> THEN <<>>
    ELSE DictSet(InitCache(Front(scan)), FromVsixPath(Last(scan)))

\* sum(p.byte_size for p in self._package_cache.values())
RECURSIVE CacheBytes(_)
CacheBytes(d) == IF d = <<>> THEN 0 ELSE Head(d).byte_size + CacheBytes(Tail(d))

\* cache_size <= _maxsize_mb (both sides times 1 << 20; the division is exact)
WithinMaxSize(d, maxmb) == CacheBytes(d) <= maxmb * MB

\* faulty variant of BytesNeeded: the maximum is added, not subtracted
BytesNeededWrongSign(d, maxmb) == CacheBytes(d) + maxmb * MB

\* bytes_needed = (cache_size - _maxsize_mb) * (1 << 20)
BytesNeeded(d, maxmb) == CacheBytes(d) - maxmb * MB

RECURSIVE InsertNewestFirst(_, _)
InsertNewestFirst(sorted, x) ==
    IF sorted = <<>> THEN <<x>>
    ELSE IF Head(sorted).created_at >= x.created_at
           THEN <<Head(sorted)>> \o InsertNewestFirst(Tail(sorted), x)
           ELSE <<x>> \o sorted

RECURSIVE InsertOldestFirst(_, _)
InsertOldestFirst(sorted, x) ==
    IF sorted = <<>> THEN <<x>>
    ELSE IF Head(sorted).created_at <= x.created_at
           THEN <<Head(sorted)>> \o InsertOldestFirst(Tail(sorted), x)
           ELSE <<x>> \o sorted

\* faulty variant of SizeSorted: reverse=True forgotten
RECURSIVE SizeSortedAscending(_)
SizeSortedAscending(d) ==
    IF d = <<>> THEN <<>> ELSE InsertOldestFirst(SizeSortedAscending(Front(d)), Last(d))

\* sorted(values, key=attrgetter("created_at"), reverse=True): stable, newest first
RECURSIVE SizeSorted(_)
SizeSorted(d) ==
    IF d = <<>> THEN <<>> ELSE InsertNewestFirst(SizeSorted(Front(d)), Last(d))

\* the while loop of _prune_cache: pop from the end until freed_bytes >= bytes_needed
RECURSIVE ToPurge(_, _, _)
ToPurge(sorted, freed_bytes, bytes_needed) ==
    IF freed_bytes < bytes_needed /\ sorted # <<>>
      THEN <<Last(sorted)>> \o
           ToPurge(Front(sorted), freed_bytes + Last(sorted).byte_size, bytes_needed)
      ELSE <<>>

\* the while loop of _prune_cache reaches size_sorted.pop() with the list empty
\* (IndexError)
RECURSIVE PopsEmpty(_, _, _)
PopsEmpty(sorted, freed_bytes, bytes_needed) ==
    IF freed_bytes >= bytes_needed THEN FALSE
    ELSE IF sorted = <<>> THEN TRUE
    ELSE PopsEmpty(Front(sorted), freed_bytes + Last(sorted).byte_size, bytes_needed)

\* faulty variant of RemoveResult: the entry is popped, its file is not unlinked
RemoveResultKeepsFile(d, dir, ext) ==
    IF ~HasKey(d, ext)
      THEN [cache |-> d, dir |-> dir, outcome |-> "not_in_cache"]
      ELSE [cache |-> DictPop(d, ext), dir |-> dir, outcome |-> "removed"]

\* faulty variant of RemoveResult: every file of the identifier is unlinked, not
\* only the entry's cache_path
RemoveResultUnlinksIdentifier(d, dir, ext) ==
    IF ~HasKey(d, ext)
      THEN [cache |-> d, dir |-> dir, outcome |-> "not_in_cache"]
      ELSE [cache |-> DictPop(d, ext), dir |-> {f \in dir : f.extension # ext},
            outcome |-> "removed"]

\* faulty variant of RemoveResult: the file is unlinked, the entry is not popped
RemoveResultKeepsEntry(d, dir, ext) ==
    IF ~HasKey(d, ext)
      THEN [cache |-> d, dir |-> dir, outcome |-> "not_in_cache"]
      ELSE [cache |-> d, dir |-> {f \in dir : FileName(f) # Get(d, ext).cache_path},
            outcome |-> "removed"]

\* remove(extension): pop the entry, then unlink its file (FileNotFoundError if gone)
RemoveResult(d, dir, ext) ==
    IF ~HasKey(d, ext)
      THEN [cache |-> d, dir |-> dir, outcome |-> "not_in_cache"]
      ELSE LET e == Get(d, ext) IN
           IF ExistsIn(dir, e.cache_path)
             THEN [cache |-> DictPop(d, ext),
                   dir |-> {f \in dir : FileName(f) # e.cache_path},
                   outcome |-> "removed"]
             ELSE [cache |-> DictPop(d, ext), dir |-> dir, outcome |-> "raised"]

\* for p in to_purge: self.remove(p.extension)
RECURSIVE RemoveEach(_, _, _)
RemoveEach(d, dir, to_purge) ==
    IF to_purge = <<>> THEN [cache |-> d, dir |-> dir, outcome |-> "pruned"]
    ELSE LET r == RemoveResult(d, dir, Head(to_purge).extension) IN
         IF r.outcome = "raised" THEN r
         ELSE RemoveEach(r.cache, r.dir, Tail(to_purge))

\* _prune_cache
PruneResult(d, dir, maxmb) ==
    IF WithinMaxSize(d, maxmb)
      THEN [cache |-> d, dir |-> dir, outcome |-> "within_size", evicted |-> <<>>]
    ELSE IF PopsEmpty(SizeSorted(d), 0, BytesNeeded(d, maxmb))
      THEN [cache |-> d, dir |-> dir, outcome |-> "raised", evicted |-> <<>>]
      ELSE LET to_purge == ToPurge(SizeSorted(d), 0, BytesNeeded(d, maxmb))
               r == RemoveEach(d, dir, to_purge)
           IN [cache |-> r.cache, dir |-> r.dir, outcome |-> r.outcome,
               evicted |-> to_purge]

\* shutil.copy2(src, dest): dest gets the bytes and the mtime of src
Copy2(dir, f) == {g \in dir : FileName(g) # FileName(f)} \cup {f}

\* faulty variant of InsertResult: the same-version short circuit is missing
InsertResultNoShortCircuit(d, dir, maxmb, src, force) ==
    LET pre == FromVsixPath(src.file)
        r == IF HasKey(d, pre.extension) THEN RemoveResult(d, dir, pre.extension)
             ELSE [cache |-> d, dir |-> dir, outcome |-> "not_in_cache"]
    IN
    IF r.outcome = "raised" \/ src.inside
      THEN [cache |-> r.cache, dir |-> r.dir, outcome |-> "raised", evicted |-> <<>>]
      ELSE LET p == PruneResult(DictSet(r.cache, pre), Copy2(r.dir, src.file), maxmb)
           IN [cache |-> p.cache, dir |-> p.dir,
               outcome |-> IF p.outcome = "raised" THEN "raised" ELSE "inserted",
               evicted |-> p.evicted]

\* insert(vsix_filepath, force); src.inside tells whether vsix_filepath lies in _cache_dir
InsertResult(d, dir, maxmb, src, force) ==
    LET pre == FromVsixPath(src.file)
        known == HasKey(d, pre.extension)
    IN
    IF known /\ Get(d, pre.extension).version = pre.version /\ ~force
      THEN [cache |-> d, dir |-> dir, outcome |-> "same_version", evicted |-> <<>>]
    ELSE LET r == IF known THEN RemoveResult(d, dir, pre.extension)
                  ELSE [cache |-> d, dir |-> dir, outcome |-> "not_in_cache"]
         IN
         IF r.outcome = "raised"
           THEN [cache |-> r.cache, dir |-> r.dir, outcome |-> "raised", evicted |-> <<>>]
         ELSE IF src.inside
           \* the source is the destination (SameFileError), or remove just unlinked it
           THEN [cache |-> r.cache, dir |-> r.dir, outcome |-> "raised", evicted |-> <<>>]
           ELSE LET copied == Copy2(r.dir, src.file)
                    ext == FromVsixPath(src.file)
                    p == PruneResult(DictSet(r.cache, ext), copied, maxmb)
                IN [cache |-> p.cache, dir |-> p.dir,
                    outcome |-> IF p.outcome = "raised" THEN "raised" ELSE "inserted",
                    evicted |-> p.evicted]

\* purge: unlink every entry's file in dict order, then reset the dict
RECURSIVE UnlinkEach(_, _)
UnlinkEach(dir, d) ==
    IF d = <<>> THEN [dir |-> dir, outcome |-> "purged"]
    ELSE IF ExistsIn(dir, Head(d).cache_path)
           THEN UnlinkEach({f \in dir : FileName(f) # Head(d).cache_path}, Tail(d))
           ELSE [dir |-> dir, outcome |-> "raised"]

\* faulty variant of PurgeResult: the dict is reset, the files are not unlinked
PurgeResultKeepsFiles(d, dir) == [cache |-> <<>>, dir |-> dir, outcome |-> "purged"]

PurgeResult(d, dir) ==
    LET r == UnlinkEach(dir, d) IN
    [cache |-> IF r.outcome = "raised" THEN d ELSE <<>>, dir |-> r.dir, outcome |-> r.outcome]

\* the identifiers in the order sorted(key=attrgetter("extension")) puts them
ExtOrder == <<"a.x", "b.y", "c.z">>
ExtRank(ext) == CHOOSE i \in DOMAIN ExtOrder : ExtOrder[i] = ext

RECURSIVE InsertByName(_, _)
InsertByName(sorted, x) ==
    IF sorted = <<>> THEN <<x>>
    ELSE IF ExtRank(Head(sorted).extension) <= ExtRank(x.extension)
           THEN <<Head(sorted)>> \o InsertByName(Tail(sorted), x)
           ELSE <<x>> \o sorted

RECURSIVE NameSorted(_)
NameSorted(d) == IF d = <<>> THEN <<>> ELSE InsertByName(NameSorted(Front(d)), Last(d))

\* CachedExtension.__str__: "{extension}_{version} ({size:.2f} MB)"
ListLine(e) == [extension |-> e.extension, version |-> e.version, byte_size |-> e.byte_size]

\* list(): the lines it prints (a read: no state of the cache changes)
List(d) ==
    IF d = <<>> THEN <<"No cached extensions.">>
    ELSE <<"Cache contents:">> \o [i \in DOMAIN d |-> ListLine(NameSorted(d)[i])]

\* the paths copy_to can be handed as dest: a path that does not exist, a regular
\* file, a directory other than the cache directory, the cache directory itself
Dests == {"missing", "file", "dir", "cache_dir"}
NoPath == "none"
NoFile == "none"

\* the record of a copy_to call: its arguments, its outcome, the path it returned
\* and the file it wrote there
CopyToOp(outcome, ext, dest, returned, written) ==
    [op |-> "copy_to", outcome |-> outcome, extension |-> ext, version |-> NoVersion,
     force |-> FALSE, evicted |-> <<>>, dest |-> dest, returned |-> returned,
     written |-> written]

\* faulty variant of CopyToResult: the cached file is moved, not copied
CopyToResultMoves(d, dir, ext, dest) ==
    IF dest \in {"missing", "file"}
      THEN [dir |-> dir, outcome |-> "not_a_directory", returned |-> NoPath,
            written |-> NoFile]
    ELSE IF ~HasKey(d, ext)
      THEN [dir |-> dir, outcome |-> "not_in_cache", returned |-> NoPath, written |-> NoFile]
    ELSE LET e == Get(d, ext)
             name == [extension |-> e.extension, version |-> e.version]
         IN [dir |-> {f \in dir : FileName(f) # e.cache_path}, outcome |-> "copied",
             returned |-> [dir |-> dest, name |-> name],
             written |-> CHOOSE f \in dir : FileName(f) = e.cache_path]

\* copy_to(extension, dest)
CopyToResult(d, dir, ext, dest) ==
    IF dest \in {"missing", "file"}
      THEN [dir |-> dir, outcome |-> "not_a_directory", returned |-> NoPath,
            written |-> NoFile]
    ELSE IF ~HasKey(d, ext)
      THEN [dir |-> dir, outcome |-> "not_in_cache", returned |-> NoPath, written |-> NoFile]
    ELSE LET e == Get(d, ext)
             \* dest_filepath = dest / f"{ext.extension}_{ext.version}.vsix"
             name == [extension |-> e.extension, version |-> e.version]
         IN
         IF ~ExistsIn(dir, e.cache_path)
           \* shutil.copy2 raises FileNotFoundError
           THEN [dir |-> dir, outcome |-> "raised", returned |-> NoPath, written |-> NoFile]
         ELSE LET src == CHOOSE f \in dir : FileName(f) = e.cache_path
                  copy == [src EXCEPT !.extension = name.extension,
                                      !.version = name.version]
              IN
              IF dest = "cache_dir" /\ name = e.cache_path
                \* source and destination are one file: shutil.copy2 raises SameFileError
                THEN [dir |-> dir, outcome |-> "raised", returned |-> NoPath,
                      written |-> NoFile]
                ELSE [dir |-> IF dest = "cache_dir" THEN Copy2(dir, copy) ELSE dir,
                      outcome |-> "copied",
                      returned |-> [dir |-> dest, name |-> name],
                      written |-> copy]

\* the paths insert can be handed: files outside the cache directory, or inside it
Sources == {[inside |-> FALSE, file |-> f] : f \in AllFiles}
             \cup {[inside |-> TRUE, file |-> f] : f \in cache_dir}

Insert ==
    \E src \in Sources, force \in BOOLEAN :
        \E r \in {InsertResult(package_cache, cache_dir, maxsize_mb, src, force)} :
            /\ package_cache' = r.cache
            /\ cache_dir' = r.dir
            /\ last_op' = LastOp("insert", r.outcome, src.file.extension, src.file.version,
                                 force, r.evicted)
            /\ UNCHANGED <<maxsize_mb, init_ambiguous>>

Remove ==
    \E ext \in Exts :
        \E r \in {RemoveResult(package_cache, cache_dir, ext)} :
            /\ package_cache' = r.cache
            /\ cache_dir' = r.dir
            /\ last_op' = LastOp("remove", r.outcome, ext, NoVersion, FALSE, <<>>)
            /\ UNCHANGED <<maxsize_mb, init_ambiguous>>

Purge ==
    \E r \in {PurgeResult(package_cache, cache_dir)} :
        /\ package_cache' = r.cache
        /\ cache_dir' = r.dir
        /\ last_op' = LastOp("purge", r.outcome, "none", NoVersion, FALSE, <<>>)
        /\ UNCHANGED <<maxsize_mb, init_ambiguous>>

Prune ==
    \E r \in {PruneResult(package_cache, cache_dir, maxsize_mb)} :
        /\ package_cache' = r.cache
        /\ cache_dir' = r.dir
        /\ last_op' = LastOp("prune", r.outcome, "none", NoVersion, FALSE, r.evicted)
        /\ UNCHANGED <<maxsize_mb, init_ambiguous>>

CopyTo ==
    \E ext \in Exts, dest \in Dests :
        \E r \in {CopyToResult(package_cache, cache_dir, ext, dest)} :
            /\ cache_dir' = r.dir
            /\ last_op' = CopyToOp(r.outcome, ext, dest, r.returned, r.written)
            /\ UNCHANGED <<package_cache, maxsize_mb, init_ambiguous>>

\* the cache directories an instance can be constructed over
RECURSIVE DirsUpTo(_)
DirsUpTo(n) ==
    IF n = 0 THEN {{}}
    ELSE LET smaller == DirsUpTo(n - 1) IN
         smaller \cup {p[1] \cup {p[2]} :
                          p \in {q \in smaller \X AllFiles : ~ExistsIn(q[1], FileName(q[2]))}}
InitDirs == DirsUpTo(MaxInitFiles)

DownloadIdle ==
    /\ extensions = <<>>
    /\ seen_extensions = {}
    /\ out_dir = {}
    /\ out_dir_exists = TRUE
    /\ follow_dependencies = FALSE
    /\ pc = "idle"
    /\ version_cache = [e \in Exts |-> NoVersion]
    /\ attempts = <<>>
    /\ printed = <<>>
    /\ depends = [e \in Exts |-> {}]
    /\ seed = <<>>

\* ExtensionCache.__init__: _init_cache over the directory, in some glob order
CacheInit ==
    /\ maxsize_mb \in 0..MaxSizeMb
    /\ cache_dir \in InitDirs
    /\ package_cache \in {InitCache(scan) : scan \in Orderings(cache_dir)}
    /\ last_op = LastOp("init", "constructed", "none", NoVersion, FALSE, <<>>)
    /\ init_ambiguous = \E f, g \in cache_dir : f # g /\ f.extension = g.extension
    /\ DownloadIdle
    /\ IdIdle
    /\ FnIdle
    /\ ExIdle
    /\ PeerIdle

CacheNext ==
    \/ (Insert /\ UNCHANGED <<dlvars, idvars, fnvars, exvars, peervars>>)
    \/ (Remove /\ UNCHANGED <<dlvars, idvars, fnvars, exvars, peervars>>)
    \/ (Purge /\ UNCHANGED <<dlvars, idvars, fnvars, exvars, peervars>>)
    \/ (Prune /\ UNCHANGED <<dlvars, idvars, fnvars, exvars, peervars>>)

CacheSpec == CacheInit /\ [][CacheNext]_vars

\* the same instance, copy_to among its operations
ExportNext ==
    \/ CacheNext
    \/ (CopyTo /\ UNCHANGED <<dlvars, idvars, fnvars, exvars, peervars>>)

ExportSpec == CacheInit /\ [][ExportNext]_vars

(***************************************************************************)
(* Extension.from_id and Extension.__str__                                 *)
(***************************************************************************)
\* the characters of the strings: two ordinary characters and the separator
Chars == {"a", "b", "."}
\* every string of at most MaxIdLen characters
Texts == UNION {[1..n -> Chars] : n \in 0..MaxIdLen}

\* s.split(sep): the pieces between the occurrences of sep ("".split(".") is [""])
RECURSIVE Split(_, _)
Split(s, sep) ==
    IF s = <<>> THEN << <<>> >>
    ELSE LET rest == Split(Tail(s), sep) IN
         IF Head(s) = sep THEN << <<>> >> \o rest
         ELSE << <<Head(s)>> \o Head(rest) >> \o Tail(rest)

\* `publisher, extension = extension_id.split(".")` unpacks exactly two pieces
Unpacks(s) == Len(Split(s, ".")) = 2
\* Extension.from_id(s) where the unpacking succeeds
FromId(s) == <<Split(s, ".")[1], Split(s, ".")[2]>>

\* faulty variant of Str: the separator is left out
StrNoSeparator(x) == x[1] \o x[2]

\* Extension.__str__ / pID: f"{publisher}.{extension}"
Str(x) == x[1] \o <<".">> \o x[2]

\* x = Extension.from_id(id_text), or the ValueError of the unpacking
ParseId ==
    /\ id_pc = "input"
    /\ IF Unpacks(id_text)
         THEN id_ext' = FromId(id_text) /\ id_pc' = "parsed"
         ELSE id_ext' = id_ext /\ id_pc' = "raised"
    /\ UNCHANGED <<id_text, id_str, id_again>>

\* str(x)
RenderId ==
    /\ id_pc = "parsed"
    /\ id_str' = Str(id_ext)
    /\ id_pc' = "rendered"
    /\ UNCHANGED <<id_text, id_ext, id_again>>

\* Extension.from_id(str(x))
ReparseId ==
    /\ id_pc = "rendered"
    /\ IF Unpacks(id_str)
         THEN id_again' = FromId(id_str) /\ id_pc' = "reparsed"
         ELSE id_again' = id_again /\ id_pc' = "reraised"
    /\ UNCHANGED <<id_text, id_ext, id_str>>

IdInit ==
    /\ id_text \in Texts
    /\ id_ext = <<>>
    /\ id_str = <<>>
    /\ id_again = <<>>
    /\ id_pc = "input"
    /\ DownloadIdle
    /\ CacheIdle
    /\ FnIdle
    /\ ExIdle
    /\ PeerIdle

IdNext ==
    \/ (ParseId /\ UNCHANGED <<dlvars, cachevars, fnvars, exvars, peervars>>)
    \/ (RenderId /\ UNCHANGED <<dlvars, cachevars, fnvars, exvars, peervars>>)
    \/ (ReparseId /\ UNCHANGED <<dlvars, cachevars, fnvars, exvars, peervars>>)

IdSpec == IdInit /\ [][IdNext]_vars

(***************************************************************************)
(* The file name: written by download_extensions, read by from_vsix_path   *)
(***************************************************************************)
\* the characters of a publisher or an extension name (from_id leaves no '.' in them)
PartChars == {"a", "_"}
\* the characters of a version string
VersionChars == {"1", ".", "_"}
\* the Extension values with non-empty fields, the version strings
NamedExts ==
    LET parts == UNION {[1..n -> PartChars] : n \in 1..MaxPartLen} IN parts \X parts
VersionTexts == UNION {[1..n -> VersionChars] : n \in 0..MaxPartLen}

\* the name of out_dir / f"{ext}_{latest_ver}.vsix"; "vsix" stands for its four letters
OutFileName(ext, ver) == Str(ext) \o <<"_">> \o ver \o <<".", "vsix">>

\* name.rfind("."), 0 when there is none
RECURSIVE LastDot(_)
LastDot(name) ==
    IF name = <<>> THEN 0
    ELSE IF Last(name) = "." THEN Len(name) ELSE LastDot(Front(name))

\* PurePath.suffix and PurePath.stem: cut at the last '.', unless it is the first or
\* the last character of the name
HasSuffix(name) == 1 < LastDot(name) /\ LastDot(name) < Len(name)
PathSuffix(name) ==
    IF HasSuffix(name) THEN SubSeq(name, LastDot(name), Len(name)) ELSE <<>>
PathStem(name) == IF HasSuffix(name) THEN SubSeq(name, 1, LastDot(name) - 1) ELSE name

\* CachedExtension.from_vsix_path on an existing file of this name: does it return
FromVsixNameReturns(name) ==
    /\ PathSuffix(name) = <<".", "vsix">>
    /\ Len(Split(PathStem(name), "_")) = 2
    /\ Unpacks(Split(PathStem(name), "_")[1])
\* (extension, version) of the CachedExtension it returns
FromVsixName(name) ==
    <<FromId(Split(PathStem(name), "_")[1]), Split(PathStem(name), "_")[2]>>

\* dl.py line 95: the engine names the file it is about to write
WriteName ==
    /\ fn_pc = "input"
    /\ fn_name' = OutFileName(fn_ext, fn_version)
    /\ fn_pc' = "written"
    /\ UNCHANGED <<fn_ext, fn_version, fn_parsed>>

\* from_vsix_path(out_filepath), as insert calls it first
ParseName ==
    /\ fn_pc = "written"
    /\ IF FromVsixNameReturns(fn_name)
         THEN fn_parsed' = FromVsixName(fn_name) /\ fn_pc' = "parsed"
         ELSE fn_parsed' = fn_parsed /\ fn_pc' = "raised"
    /\ UNCHANGED <<fn_ext, fn_version, fn_name>>

NameInit ==
    /\ fn_ext \in NamedExts
    /\ fn_version \in VersionTexts
    /\ fn_name = <<>>
    /\ fn_parsed = <<>>
    /\ fn_pc = "input"
    /\ DownloadIdle
    /\ CacheIdle
    /\ IdIdle
    /\ ExIdle
    /\ PeerIdle

NameNext ==
    \/ (WriteName /\ UNCHANGED <<dlvars, cachevars, idvars, exvars, peervars>>)
    \/ (ParseName /\ UNCHANGED <<dlvars, cachevars, idvars, exvars, peervars>>)

NameSpec == NameInit /\ [][NameNext]_vars

(***************************************************************************)
(* extract_dependencies                                                    *)
(***************************************************************************)
\* the strings a package.json declares: a.b, c.d, a (no separator), a.b.c, .x
DepStrings ==
    {<<"a", ".", "b">>, <<"c", ".", "d">>, <<"a">>, <<"a", ".", "b", ".", "c">>,
     <<".", "x">>}
DepLists == UNION {[1..n -> DepStrings] : n \in 0..MaxDeclared}

\* the artifacts: not a zip archive; no entry at `target`; an entry that is not JSON;
\* a JSON object without "extensionDependencies"; a JSON object with the list
Artifacts ==
    {[target |-> k, deps |-> <<>>] : k \in {"bad_zip", "absent", "unparseable", "no_field"}}
        \cup {[target |-> "list", deps |-> l] : l \in DepLists}

NoResult == [outcome |-> "none", value |-> {}]
Returned(value) == [outcome |-> "returned", value |-> value]
Raised == [outcome |-> "raised", value |-> {}]

\* faulty variant of ExitTmp: the directory is removed with rmdir, which leaves a
\* directory that holds files
ExitTmpRmdir(tmpdirs) == {t \in tmpdirs : t.files # {}}

\* TemporaryDirectory.__exit__: the directory and its content are removed, on a
\* return and on an exception alike
ExitTmp(tmpdirs) == {}

\* line 55: with tempfile.TemporaryDirectory() as tmpdir
EnterTmp ==
    /\ ex_pc = "start"
    /\ ex_tmpdirs' = {[files |-> {}]}
    /\ ex_pc' = "entered"
    /\ UNCHANGED <<ex_vsix, ex_result>>

\* lines 56-62: open the archive, extract `target` if it is there, else return set()
ExtractTarget ==
    /\ ex_pc = "entered"
    /\ IF ex_vsix.target = "bad_zip"
         THEN /\ ex_result' = Raised
              /\ ex_tmpdirs' = ExitTmp(ex_tmpdirs)
              /\ ex_pc' = "raised"
       ELSE IF ex_vsix.target = "absent"
         THEN /\ ex_result' = Returned({})
              /\ ex_tmpdirs' = ExitTmp(ex_tmpdirs)
              /\ ex_pc' = "returned"
         ELSE /\ ex_result' = ex_result
              /\ ex_tmpdirs' = {[files |-> {"extension/package.json"}]}
              /\ ex_pc' = "extracted"
    /\ UNCHANGED ex_vsix

\* lines 64-65: json.load raises on an entry that is not JSON
LoadSpec ==
    /\ ex_pc = "extracted"
    /\ IF ex_vsix.target = "unparseable"
         THEN /\ ex_result' = Raised
              /\ ex_tmpdirs' = ExitTmp(ex_tmpdirs)
              /\ ex_pc' = "raised"
         ELSE /\ ex_result' = ex_result
              /\ ex_tmpdirs' = ex_tmpdirs
              /\ ex_pc' = "loaded"
    /\ UNCHANGED ex_vsix

\* lines 67-68: extension_spec.get("extensionDependencies", []) and the set
\* comprehension over Extension.from_id, which raises at the first string that does
\* not unpack
ParseDependencies ==
    /\ ex_pc = "loaded"
    /\ LET dependencies == ex_vsix.deps IN
       IF \A i \in DOMAIN dependencies : Unpacks(dependencies[i])
         THEN /\ ex_result' = Returned({FromId(dependencies[i]) : i \in DOMAIN dependencies})
              /\ ex_pc' = "returned"
         ELSE /\ ex_result' = Raised
              /\ ex_pc' = "raised"
    /\ ex_tmpdirs' = ExitTmp(ex_tmpdirs)
    /\ UNCHANGED ex_vsix

ExtractInit ==
    /\ ex_vsix \in Artifacts
    /\ ex_tmpdirs = {}
    /\ ex_result = NoResult
    /\ ex_pc = "start"
    /\ DownloadIdle
    /\ CacheIdle
    /\ IdIdle
    /\ FnIdle
    /\ PeerIdle

ExtractNext ==
    \/ (EnterTmp /\ UNCHANGED <<dlvars, cachevars, idvars, fnvars, peervars>>)
    \/ (ExtractTarget /\ UNCHANGED <<dlvars, cachevars, idvars, fnvars, peervars>>)
    \/ (LoadSpec /\ UNCHANGED <<dlvars, cachevars, idvars, fnvars, peervars>>)
    \/ (ParseDependencies /\ UNCHANGED <<dlvars, cachevars, idvars, fnvars, peervars>>)

ExtractSpec == ExtractInit /\ [][ExtractNext]_vars

(***************************************************************************)
(* insert on a path from_vsix_path rejects                                 *)
(***************************************************************************)
\* the file names handed to insert: a.x_1.vsix, a.x_1.zip, a.x.vsix (no '_'),
\* a.x_1_1.vsix (two '_'), ax_1.vsix (identifier without '.')
PathNames ==
    {<<"a", ".", "x", "_", "1", ".", "vsix">>,
     <<"a", ".", "x", "_", "1", ".", "zip">>,
     <<"a", ".", "x", ".", "vsix">>,
     <<"a", ".", "x", "_", "1", "_", "1", ".", "vsix">>,
     <<"a", "x", "_", "1", ".", "vsix">>}

\* the paths: a name outside the cache directory, and whether a file is there
Paths == [name : PathNames, exists : BOOLEAN]

\* CachedExtension.from_vsix_path raises: the file is missing, the suffix is not
\* .vsix, or the stem does not unpack into identifier and version
FromVsixPathRaises(p) == ~p.exists \/ ~FromVsixNameReturns(p.name)

\* faulty variant of InsertRejected: the cached a.x is removed before the path is
\* examined
InsertRejectedRemovesFirst(d, dir, p) ==
    LET r == IF HasKey(d, Updated) THEN RemoveResult(d, dir, Updated)
             ELSE [cache |-> d, dir |-> dir]
    IN [cache |-> r.cache, dir |-> r.dir, outcome |-> "value_error"]

\* insert(vsix_filepath) when from_vsix_path, its first statement, raises ValueError
InsertRejected(d, dir, p) == [cache |-> d, dir |-> dir, outcome |-> "value_error"]

InsertBadPath ==
    \E p \in Paths, force \in BOOLEAN :
        /\ FromVsixPathRaises(p)
        /\ \E r \in {InsertRejected(package_cache, cache_dir, p)} :
              /\ package_cache' = r.cache
              /\ cache_dir' = r.dir
              /\ last_op' = LastOp("insert", r.outcome, "none", NoVersion, force, <<>>)
        /\ UNCHANGED <<maxsize_mb, init_ambiguous>>

PathNext ==
    \/ CacheNext
    \/ (InsertBadPath /\ UNCHANGED <<dlvars, idvars, fnvars, exvars, peervars>>)

PathSpec == CacheInit /\ [][PathNext]_vars

(***************************************************************************)
(* Two ExtensionCache instances on one cache directory                     *)
(***************************************************************************)
\* ExtensionCache(cache_dir) a second time, right after the first: the new instance
\* scans the same directory; nothing links its dict to the first instance's
ConstructB ==
    /\ ~b_acted
    /\ last_op.op = "init"
    /\ cache_b' \in {InitCache(scan) : scan \in Orderings(cache_dir)}
    /\ b_acted' = TRUE
    /\ last_op' = LastOp("peer_init", "constructed", "none", NoVersion, FALSE, <<>>)
    /\ UNCHANGED <<cache_dir, package_cache, maxsize_mb, init_ambiguous>>

\* the files the second instance inserts: the second release of a.x, downloaded now
PeerSources ==
    {src \in Sources : /\ ~src.inside
                       /\ src.file.extension = Updated /\ src.file.version = "2.0"
                       /\ \A t \in Times : t <= src.file.mtime}

\* insert, remove and _prune_cache of the second instance: its own dict, the shared
\* directory
InsertB ==
    /\ b_acted
    /\ \E src \in PeerSources, force \in BOOLEAN :
          \E r \in {InsertResult(cache_b, cache_dir, maxsize_mb, src, force)} :
              /\ cache_b' = r.cache
              /\ cache_dir' = r.dir
              /\ last_op' = LastOp("peer_insert", r.outcome, src.file.extension,
                                   src.file.version, force, r.evicted)
    /\ UNCHANGED <<package_cache, maxsize_mb, init_ambiguous, b_acted>>

RemoveB ==
    /\ b_acted
    /\ \E ext \in Exts :
          \E r \in {RemoveResult(cache_b, cache_dir, ext)} :
              /\ cache_b' = r.cache
              /\ cache_dir' = r.dir
              /\ last_op' = LastOp("peer_remove", r.outcome, ext, NoVersion, FALSE, <<>>)
    /\ UNCHANGED <<package_cache, maxsize_mb, init_ambiguous, b_acted>>

PruneB ==
    /\ b_acted
    /\ \E r \in {PruneResult(cache_b, cache_dir, maxsize_mb)} :
          /\ cache_b' = r.cache
          /\ cache_dir' = r.dir
          /\ last_op' = LastOp("peer_prune", r.outcome, "none", NoVersion, FALSE, r.evicted)
    /\ UNCHANGED <<package_cache, maxsize_mb, init_ambiguous, b_acted>>

\* the interleavings explored: the first instance alone, with all its operations;
\* or both instances constructed on the directory one after the other and then
\* interleaving freely, the first one removing, purging and pruning, the second one
\* inserting the second release of a.x, removing and pruning
PeerNext ==
    \/ (~b_acted /\ Insert /\ UNCHANGED <<dlvars, idvars, fnvars, exvars, peervars>>)
    \/ (Remove /\ UNCHANGED <<dlvars, idvars, fnvars, exvars, peervars>>)
    \/ (Purge /\ UNCHANGED <<dlvars, idvars, fnvars, exvars, peervars>>)
    \/ (Prune /\ UNCHANGED <<dlvars, idvars, fnvars, exvars, peervars>>)
    \/ (ConstructB /\ UNCHANGED <<dlvars, idvars, fnvars, exvars>>)
    \/ (InsertB /\ UNCHANGED <<dlvars, idvars, fnvars, exvars>>)
    \/ (RemoveB /\ UNCHANGED <<dlvars, idvars, fnvars, exvars>>)
    \/ (PruneB /\ UNCHANGED <<dlvars, idvars, fnvars, exvars>>)

PeerSpec == CacheInit /\ [][PeerNext]_vars

(***************************************************************************)
(* Properties of download_extensions                                       *)
(***************************************************************************)
Attempted == {attempts[i].extension : i \in DOMAIN attempts}
AttemptsOf(e) == Cardinality({i \in DOMAIN attempts : attempts[i].extension = e})
AllAttemptsOK == \A i \in DOMAIN attempts : attempts[i].outcome = "ok"
Succeeded == {attempts[i].extension : i \in {j \in DOMAIN attempts : attempts[j].outcome = "ok"}}

\* identifiers reachable from S through the declared dependencies
RECURSIVE ReachFrom(_, _)
ReachFrom(S, n) ==
    IF n = 0 THEN S ELSE ReachFrom(S \cup UNION {depends[e] : e \in S}, n - 1)
Reachable == ReachFrom(Range(seed), Cardinality(Exts))

HasCompleteFile(e) == \E f \in out_dir : f.extension = e /\ f.complete

\* C1: with follow_dependencies, no identifier is popped, resolved and fetched more
\* than once in one call (stated as claimed; the code violates it)
C1_AttemptedAtMostOnce ==
    follow_dependencies => \A e \in Exts : AttemptsOf(e) <= 1

\* C2: when every resolution and fetch succeeds and follow_dependencies is true, the
\* call ends with exactly the identifiers reachable from the seed downloaded and in
\* seen_extensions, and nothing outside that set is ever attempted, whatever order
\* the dependency sets were enqueued in
C2_AllSucceedVisitsReachable ==
    (follow_dependencies /\ AllAttemptsOK) =>
        /\ Attempted \subseteq Reachable
        /\ pc = "done" => /\ seen_extensions = Reachable
                          /\ \A e \in Reachable : HasCompleteFile(e)

C2_Witness ==
    /\ pc = "done" /\ follow_dependencies /\ AllAttemptsOK
    /\ Len(seed) = 1
    /\ Reachable = Exts
    /\ seen_extensions = Exts
    /\ depends[seed[1]] # Exts \ {seed[1]}

\* C3: for every declared graph (cycles and self-dependencies included) and any mix
\* of OK and non-OK fetches the call terminates: unless an exception ended it, the
\* loop exits with the list empty; and an identifier in seen_extensions never gains
\* a position in the list
C3_Terminates ==
    /\ <>(pc = "raised" \/ (pc = "done" /\ extensions = <<>>))
    /\ [][\A e \in seen_extensions : Count(extensions', e) <= Count(extensions, e)]_vars

C3_Witness ==
    /\ pc = "done" /\ extensions = <<>> /\ follow_dependencies
    /\ \E a, b \in Exts : a # b /\ a \in depends[b] /\ b \in depends[a] /\ a \in depends[a]
                          /\ {a, b} \subseteq Attempted
    /\ \E i \in DOMAIN attempts : attempts[i].outcome = "not_ok"

\* C4: a failed version resolution is recorded for that identifier and the traversal
\* goes on (stated as claimed; the code lets the exception end the call)
C4_ResolveFailureContinues ==
    \A i \in DOMAIN attempts :
        attempts[i].outcome = "resolve_error" =>
            /\ pc # "raised"
            /\ \E k \in DOMAIN printed : printed[k].extension = attempts[i].extension

\* C5: an iteration whose fetch answers a non-OK status prints the identifier,
\* writes no file, leaves seen_extensions alone, enqueues nothing and stays in the loop
C5_NotOKSkips ==
    [][(attempts' # attempts /\ Last(attempts').outcome = "not_ok") =>
        /\ printed' = Append(printed, [msg |-> "could_not_download",
                                       extension |-> Last(attempts').extension])
        /\ Last(attempts').extension = Last(extensions)
        /\ out_dir' = out_dir
        /\ seen_extensions' = seen_extensions
        /\ extensions' = Front(extensions)
        /\ pc' = "loop"]_vars

C5_Witness ==
    /\ follow_dependencies
    /\ \E i \in DOMAIN attempts :
        /\ attempts[i].outcome = "not_ok"
        /\ depends[attempts[i].extension] # {}
        /\ attempts[i].extension \notin seen_extensions
        /\ i < Len(attempts)
        /\ attempts[i + 1].outcome = "ok"

\* C6: seen_extensions is exactly the set of identifiers that had a fetch answer OK
\* and all chunks written; while the call runs each of them has its complete file
C6_SeenIsSucceeded ==
    /\ seen_extensions = Succeeded
    /\ pc \in {"loop", "done"} => \A e \in seen_extensions : HasCompleteFile(e)

C6_Witness ==
    /\ pc = "done"
    /\ seen_extensions # {}
    /\ \E i \in DOMAIN attempts :
        attempts[i].outcome = "not_ok" /\ attempts[i].extension \notin seen_extensions

\* C7: after the call exits, no file in out_dir is half-written (stated as claimed;
\* the code leaves the partial file of an interrupted stream in place)
C7_NoPartialFileAfterExit ==
    pc \in {"done", "raised"} => \A f \in out_dir : f.complete

\* C18: a call whose out_dir does not exist never enters the loop: it raises with
\* no identifier popped, resolved or fetched (no registry request), nothing printed,
\* no file written, and the caller's list as it was passed
C18_MissingOutDirFailsFirst ==
    ~out_dir_exists =>
        /\ pc \in {"start", "raised"}
        /\ attempts = <<>>
        /\ version_cache = [e \in Exts |-> NoVersion]
        /\ printed = <<>>
        /\ out_dir = {}
        /\ seen_extensions = {}
        /\ extensions = seed

\* the call has raised on a missing out_dir with two identifiers in the list
C18_Witness ==
    /\ ~out_dir_exists
    /\ pc = "raised"
    /\ Len(seed) = 2

(***************************************************************************)
(* Properties of ExtensionCache                                            *)
(***************************************************************************)
RECURSIVE SumBytes(_)
SumBytes(es) == IF es = <<>> THEN 0 ELSE Head(es).byte_size + SumBytes(Tail(es))

ReturnedNormally == last_op.outcome # "raised"

\* C8: after every insert that returns normally the entries total at most
\* max_size_mb megabytes (stated as claimed; the code violates it)
C8_InsertKeepsWithinMaxSize ==
    (last_op.op = "insert" /\ ReturnedNormally) =>
        SumBytes(package_cache) <= maxsize_mb * MB

EntriesMatchDirectory ==
    /\ {package_cache[i].extension : i \in DOMAIN package_cache}
          = {f.extension : f \in cache_dir}
    /\ \A i \in DOMAIN package_cache :
          \E f \in cache_dir : /\ FileName(f) = package_cache[i].cache_path
                               /\ f.extension = package_cache[i].extension
                               /\ f.version = package_cache[i].version
    /\ \A f \in cache_dir :
          \E i \in DOMAIN package_cache : package_cache[i].cache_path = FileName(f)

\* C10 as claimed: after construction over any directory and any operations the
\* entries name exactly the .vsix files of the directory (the code violates it)
C10_EntriesMatchAnyDirectory == EntriesMatchDirectory

\* C10 amended: the same, for an instance constructed over a directory that holds
\* at most one .vsix file per identifier
C10_EntriesMatchUnambiguousDirectory == ~init_ambiguous => EntriesMatchDirectory

C10_Witness ==
    /\ ~init_ambiguous
    /\ last_op.op = "insert" /\ last_op.outcome = "inserted"
    /\ last_op.evicted # <<>>
    /\ Len(package_cache) = 2
    /\ \E i \in DOMAIN package_cache : package_cache[i].version = "2.0"

\* the insert just taken found its identifier cached at another version
ReplacingInsert ==
    /\ last_op'.op = "insert"
    /\ HasKey(package_cache, last_op'.extension)
    /\ Get(package_cache, last_op'.extension).version # last_op'.version

\* C11: an insert for an identifier cached at a different version that returns
\* normally has removed the old version's file, makes cached_version return the new
\* version and leaves the number of entries as it was (stated as claimed; the code
\* violates it)
C11_InsertReplacesOtherVersion ==
    [][(ReplacingInsert /\ last_op'.outcome = "inserted") =>
          /\ ~ExistsIn(cache_dir', Get(package_cache, last_op'.extension).cache_path)
          /\ CachedVersion(package_cache', last_op'.extension) = last_op'.version
          /\ Len(package_cache') = Len(package_cache)]_vars

\* the insert just taken, without force, found its identifier cached at the version
\* of the source file
SameVersionInsert ==
    /\ last_op'.op = "insert"
    /\ ~last_op'.force
    /\ HasKey(package_cache, last_op'.extension)
    /\ Get(package_cache, last_op'.extension).version = last_op'.version

\* C12: an insert with force=False for an identifier cached at the same version
\* returns at the short circuit: the files of the cache directory and the entries
\* (their number, their order, the created_at of each) are as before the call, and
\* nothing is evicted
C12_SameVersionInsertIsNoOp ==
    [][SameVersionInsert =>
          /\ last_op'.outcome = "same_version"
          /\ last_op'.evicted = <<>>
          /\ cache_dir' = cache_dir
          /\ package_cache' = package_cache]_vars

\* a same-version insert has returned on a cache of two entries that is over its
\* maximum size
C12_Witness ==
    /\ last_op.op = "insert" /\ last_op.outcome = "same_version" /\ ~last_op.force
    /\ Len(package_cache) = 2
    /\ SumBytes(package_cache) > maxsize_mb * MB

\* the insert just taken, with force, found its identifier cached at the version of
\* the source file
ForcedSameVersionInsert ==
    /\ last_op'.op = "insert"
    /\ last_op'.force
    /\ HasKey(package_cache, last_op'.extension)
    /\ Get(package_cache, last_op'.extension).version = last_op'.version

\* C13: after an insert with force=True for an identifier cached at the same version,
\* whatever the source path, the cache holds exactly one entry for the identifier,
\* at that version, backed by an existing file, with created_at not earlier than the
\* replaced entry's (stated as claimed; the code violates it)
C13_ForcedInsertRecopies ==
    [][ForcedSameVersionInsert =>
          /\ Len(SelectSeq(package_cache', LAMBDA e : e.extension = last_op'.extension)) = 1
          /\ CachedVersion(package_cache', last_op'.extension) = last_op'.version
          /\ ExistsIn(cache_dir', Get(package_cache', last_op'.extension).cache_path)
          /\ Get(package_cache', last_op'.extension).created_at
                >= Get(package_cache, last_op'.extension).created_at]_vars

\* C14: right after construction, over any directory, the entries total at most
\* cache_maxsize_mb megabytes (stated as claimed; the code violates it)
C14_InitPrunes ==
    last_op.op = "init" => CacheBytes(package_cache) <= maxsize_mb * MB

\* C15: remove(id) for an identifier that has an entry returns normally, deletes
\* the file at the entry's cache_path and drops the entry, every other entry (and
\* the order of the entries) and every other file staying as it was; remove(id) for
\* an identifier without an entry reports "not in cache", raises nothing and leaves
\* the entries and the cache directory as they were
C15_RemoveDropsEntryAndFile ==
    [][last_op'.op = "remove" =>
          IF HasKey(package_cache, last_op'.extension)
            THEN /\ last_op'.outcome = "removed"
                 /\ ExistsIn(cache_dir, Get(package_cache, last_op'.extension).cache_path)
                 /\ cache_dir' = {f \in cache_dir :
                        FileName(f) # Get(package_cache, last_op'.extension).cache_path}
                 /\ ~HasKey(package_cache', last_op'.extension)
                 /\ package_cache' = SelectSeq(package_cache,
                                               LAMBDA e : e.extension # last_op'.extension)
            ELSE /\ last_op'.outcome = "not_in_cache"
                 /\ cache_dir' = cache_dir
                 /\ package_cache' = package_cache]_vars

\* an entry has been removed while another entry stays and another file of the
\* removed identifier, which never had an entry, stays in the directory
C15_Witness ==
    /\ last_op.op = "remove" /\ last_op.outcome = "removed"
    /\ package_cache # <<>>
    /\ \E f \in cache_dir : f.extension = last_op.extension

\* C16: a purge returns normally; after it the dict is empty, no file that backed
\* an entry before the purge is left in the cache directory, list() prints
\* "No cached extensions." and cached_version is None for every identifier
C16_PurgeEmptiesCache ==
    [][last_op'.op = "purge" =>
          /\ last_op'.outcome = "purged"
          /\ package_cache' = <<>>
          /\ \A i \in DOMAIN package_cache :
                ~ExistsIn(cache_dir', package_cache[i].cache_path)
          /\ List(package_cache') = <<"No cached extensions.">>
          /\ \A e \in Exts : CachedVersion(package_cache', e) = NoVersion]_vars

\* a purge has returned; a file that never had an entry is still in the directory
C16_Witness ==
    /\ last_op.op = "purge" /\ last_op.outcome = "purged"
    /\ package_cache = <<>>
    /\ cache_dir # {}

\* the contract of a copy_to step: the entries and the files of the cache directory
\* stay as they were; the call fails for a dest that is missing or not a directory,
\* fails for an identifier without an entry, and for a dest in `copying` writes the
\* backing file to dest/{identifier}_{version}.vsix and returns that path; for any
\* other dest it raises
CopyToContract(copying) ==
    last_op'.op = "copy_to" =>
        /\ package_cache' = package_cache
        /\ cache_dir' = cache_dir
        /\ IF last_op'.dest \in {"missing", "file"}
             THEN last_op'.outcome = "not_a_directory"
           ELSE IF ~HasKey(package_cache, last_op'.extension)
             THEN last_op'.outcome = "not_in_cache"
           ELSE IF last_op'.dest \in copying
             THEN /\ last_op'.outcome = "copied"
                  /\ last_op'.returned =
                        [dir |-> last_op'.dest,
                         name |-> [extension |-> last_op'.extension,
                                   version |-> CachedVersion(package_cache,
                                                             last_op'.extension)]]
                  /\ FileName(last_op'.written) = last_op'.returned.name
                  /\ \E f \in cache_dir :
                        /\ FileName(f) = Get(package_cache, last_op'.extension).cache_path
                        /\ f.byte_size = last_op'.written.byte_size
                        /\ f.mtime = last_op'.written.mtime
             ELSE last_op'.outcome = "raised"

C25_PruneTerminates ==
    last_op.op = "prune" =>
        /\ last_op.outcome \in {"within_size", "pruned"}
        /\ WithinMaxSize(package_cache, maxsize_mb)
        /\ (last_op.outcome = "within_size") = (last_op.evicted = <<>>)

\* a pruning had to evict both entries to free bytes_needed and has left the cache
\* empty
C25_Witness ==
    /\ last_op.op = "prune" /\ last_op.outcome = "pruned"
    /\ Len(last_op.evicted) = 2
    /\ package_cache = <<>>
    /\ cache_dir = {}

\* C26: after an insert that returned normally for a file no larger than
\* cache_maxsize_mb, cached_version gives the file's version for its identifier: the
\* pruning at the end of insert has not evicted the entry just made (stated as
\* claimed; the code violates it)
C26_InsertedSurvivesPruning ==
    (last_op.op = "insert" /\ last_op.outcome = "inserted") =>
        \/ CachedVersion(package_cache, last_op.extension) = last_op.version
        \/ \E i \in DOMAIN last_op.evicted :
               /\ last_op.evicted[i].extension = last_op.extension
               /\ last_op.evicted[i].version = last_op.version
               /\ last_op.evicted[i].byte_size > maxsize_mb * MB

\* C27: an insert that fails because from_vsix_path rejects the source path (missing
\* file, suffix other than .vsix, stem that does not split into identifier and
\* version) leaves the entries and the files of the cache directory as they were
C27_RejectedInsertChangesNothing ==
    [][(last_op'.op = "insert" /\ last_op'.outcome = "value_error") =>
          /\ package_cache' = package_cache
          /\ cache_dir' = cache_dir]_vars

\* an insert was rejected for its path while the cache held a.x, the identifier the
\* rejected names carry
C27_Witness ==
    /\ last_op.op = "insert" /\ last_op.outcome = "value_error"
    /\ HasKey(package_cache, Updated)
    /\ ExistsIn(cache_dir, Get(package_cache, Updated).cache_path)

\* an entry of the dict names a backing file that is not in the directory
Dangling(d, dir) == \E i \in DOMAIN d : ~ExistsIn(dir, d[i].cache_path)

\* C28: an entry whose backing file is gone exists only once a second instance works
\* on the directory; with the first instance alone every entry's file exists and no
\* remove, purge or pruning fails for a missing file
C28_DanglingOnlyWithPeer ==
    ~b_acted =>
        /\ ~Dangling(package_cache, cache_dir)
        /\ (last_op.op \in {"remove", "purge", "prune"} => last_op.outcome # "raised")

\* the second instance has unlinked a file the first instance still lists, and the
\* first instance's own remove has then failed on it
C28_Witness ==
    /\ b_acted
    /\ last_op.op = "remove" /\ last_op.outcome = "raised"

\* C24: the entries an initialization builds do not depend on the order in which
\* the scan of the directory yields the files: every order gives the mapping this
\* instance has (stated as claimed; the code violates it)
C24_InitIsDeterministic ==
    last_op.op = "init" =>
        \A scan \in Orderings(cache_dir) : Range(InitCache(scan)) = Range(package_cache)

(***************************************************************************)
(* Properties of Extension                                                 *)
(***************************************************************************)
Accepted == id_pc \in {"parsed", "rendered", "reparsed", "reraised"}

\* C19: a string from_id accepts holds exactly one '.' and gives a publisher and a
\* name that are both non-empty; a string with no '.', with two or more, or with an
\* empty part is rejected (stated as claimed; the code violates it)
C19_AcceptsOnlyWellFormed ==
    /\ Accepted => /\ Count(id_text, ".") = 1
                   /\ id_ext[1] # <<>>
                   /\ id_ext[2] # <<>>
    /\ (id_pc = "raised") => Count(id_text, ".") # 1

\* C20: for x = from_id(s), str(x) is publisher, '.', name, and from_id(str(x))
\* succeeds and equals x
C20_RoundTrip ==
    /\ id_pc \in {"rendered", "reparsed"} =>
          /\ Len(id_str) = Len(id_ext[1]) + 1 + Len(id_ext[2])
          /\ SubSeq(id_str, 1, Len(id_ext[1])) = id_ext[1]
          /\ id_str[Len(id_ext[1]) + 1] = "."
          /\ SubSeq(id_str, Len(id_ext[1]) + 2, Len(id_str)) = id_ext[2]
    /\ id_pc # "reraised"
    /\ id_pc = "reparsed" => id_again = id_ext

\* a four-character string with both parts non-empty has gone round
C20_Witness ==
    /\ id_pc = "reparsed"
    /\ Len(id_text) = 4
    /\ id_ext[1] # <<>> /\ id_ext[2] # <<>>
    /\ id_ext[1] # id_ext[2]

(***************************************************************************)
(* Properties of the file name                                             *)
(***************************************************************************)
\* C21: for every identifier with non-empty fields and every version string,
\* from_vsix_path accepts the file name the engine writes and returns the same
\* identifier and the same version (stated as claimed; the code violates it)
C21_WrittenNameParsesBack ==
    /\ fn_pc # "raised"
    /\ fn_pc = "parsed" => fn_parsed = <<fn_ext, fn_version>>

(***************************************************************************)
(* Properties of extract_dependencies                                      *)
(***************************************************************************)
ExtractExited == ex_pc \in {"returned", "raised"}

\* a declared string that is not publisher.name: no '.', two or more, or an empty part
Malformed(dep) ==
    \/ Count(dep, ".") # 1
    \/ Head(dep) = "."
    \/ Last(dep) = "."

\* C22: without a metadata entry, or without the dependency-list field, the call
\* returns the empty set; with an entry that is not parseable, or with any malformed
\* declared string, it raises and returns nothing; with well-formed strings it returns
\* them parsed (stated as claimed; the code violates it)
C22_AbsentIsEmptyMalformedFails ==
    ExtractExited =>
        /\ ex_vsix.target \in {"absent", "no_field"} => ex_result = Returned({})
        /\ ex_vsix.target = "unparseable" => ex_result = Raised
        /\ ex_vsix.target = "list" =>
              IF \E i \in DOMAIN ex_vsix.deps : Malformed(ex_vsix.deps[i])
                THEN ex_result = Raised
                ELSE ex_result.outcome = "returned"

\* C23: when the call has returned or raised, on any of its exit paths, no temporary
\* directory it created is left
C23_TmpdirReleasedOnExit == ExtractExited => ex_tmpdirs = {}

\* the call has raised on the second declared string, after the metadata was
\* extracted into the temporary directory and loaded
C23_Witness ==
    /\ ex_pc = "raised"
    /\ ex_vsix.target = "list"
    /\ Len(ex_vsix.deps) = 2
    /\ Unpacks(ex_vsix.deps[1])
    /\ ~Unpacks(ex_vsix.deps[2])
    /\ ex_tmpdirs = {}

====
